---- MODULE Spec2Model ----
(***************************************************************************)
(* GeminiService (src/services/geminiService.ts): the live conversational  *)
(* audio session.  One service instance is modelled: its fields, the       *)
(* transport connection it opens, the handlers the transport calls         *)
(* (onopen, onmessage, onerror), the suspended parts of its async methods  *)
(* and the audio clock of its output context.  Of the component that owns  *)
(* the service (App, src/unnamed/part_003) the model has the status and    *)
(* the error message it shows, and the start of a conversation.            *)
(*                                                                         *)
(* Strings are TLA+ strings; "" is the empty (falsy) string.               *)
(***************************************************************************)
EXTENDS Integers, Sequences, FiniteSets, TLC

\* ------------------------------------------------------------------ bounds
\* Inbound messages per run: of the transcript, of the playback and of the
\* whole-session specification.
MaxMsgs == 3
MaxPlayMsgs == 3
MaxSessionMsgs == 2
\* The last value of the audio clock.
MaxClock == 1
\* Calls of stopSession by the caller.
MaxStops == 2
\* Microphone frames per run.
MaxFrames == 2
\* Inbound messages per run of the bot-partial scenario.
MaxScenarioMsgs == 4

\* ------------------------------------------------------------ inbound data
\* Partial texts the engine may send in inputTranscription / outputTranscription.
Texts == {"", "a", "b"}

\* A grounding chunk: the title/uri pair of its web and of its maps source,
\* "" where the source or the field is missing.
WebChunk == [webTitle |-> "W", webUri |-> "u1", mapsTitle |-> "", mapsUri |-> ""]
MapsChunk == [webTitle |-> "", webUri |-> "", mapsTitle |-> "M", mapsUri |-> "u2"]
BareChunk == [webTitle |-> "", webUri |-> "", mapsTitle |-> "", mapsUri |-> ""]

ChunkLists == {<<WebChunk>>, <<BareChunk, MapsChunk>>, <<BareChunk>>}

\* a || b on strings: the first truthy (non-empty) operand, else the last.
Or(a, b) == IF a # "" THEN a ELSE b

RECURSIVE Map(_, _)
RECURSIVE Filter(_, _)
RECURSIVE Concat(_)

\* groundingChunks.map(chunk => ({title: ..., uri: ...}))
ToSource(c) ==
  [title |-> Or(Or(c.webTitle, c.mapsTitle), "Source"),
   uri |-> Or(Or(c.webUri, c.mapsUri), "#")]

Map(chunks, i) ==
  IF i > Len(chunks) THEN <<>> ELSE <<ToSource(chunks[i])>> \o Map(chunks, i + 1)

\* Mutant of Resolved: no source is dropped.
KeepAll(src) == TRUE

\* .filter(source => source.uri !== '#')
Resolved(src) == src.uri # "#"

Filter(srcs, i) ==
  IF i > Len(srcs) THEN <<>>
  ELSE (IF Resolved(srcs[i]) THEN <<srcs[i]>> ELSE <<>>) \o Filter(srcs, i + 1)

GroundingOf(chunks) == Filter(Map(chunks, 1), 1)

\* The concatenation, in order, of a sequence of strings.
Concat(ss) == IF ss = <<>> THEN "" ELSE Head(ss) \o Concat(Tail(ss))

Max(a, b) == IF a >= b THEN a ELSE b

\* An inbound LiveServerMessage (message.serverContent), field by field.
\* An absent transcription has text "", absent groundingChunks are <<>>.
AllMessages ==
  { m \in [interrupted : BOOLEAN,
           hasInput : BOOLEAN, inputText : Texts,
           hasOutput : BOOLEAN, outputText : Texts,
           hasChunks : BOOLEAN, chunks : ChunkLists \cup {<<>>},
           audio : BOOLEAN,
           turnComplete : BOOLEAN] :
      /\ ~m.hasInput => m.inputText = ""
      /\ ~m.hasOutput => m.outputText = ""
      /\ ~m.hasChunks => m.chunks = <<>> }

\* ------------------------------------------------------------------- state
VARIABLES
  \* fields of GeminiService
  session,                    \* "null" | "live"
  sessionPromise,             \* "null" | "set"
  inputAudioContext,          \* "null" | "running" | "closing" | "closed"
  outputAudioContext,         \* "null" | "running" | "closing" | "closed"
  mediaStream,                \* "null" | "live"
  source,                     \* "null" | "connected"
  scriptProcessor,            \* "null" | "connected"
  outputSources,              \* the live set of started AudioBufferSourceNodes
  nextStartTime,              \* the playback watermark
  currentInputTranscription,
  currentOutputTranscription,
  currentGrounding,
  \* positions of the async methods
  startPc,                    \* playGreetingAndStartSession / _startLiveSession
  openPc,                     \* handleSessionOpen
  pending,                    \* handleSessionMessage calls suspended in decode
  outbox,                     \* frames chained on the pending sessionPromise
  \* state of App
  status,                     \* AppStatus
  errorMessage,               \* "null" or the message shown with ERROR
  statusRef,                  \* statusRef.current: the status as last rendered
  transcript,                 \* the list of turns App shows
  geminiServiceRef,           \* "null" | "set"
  \* environment
  apiKey,                     \* whether process.env.API_KEY is set
  prevConn,                   \* the connection of the service App had before
  conn,                       \* the transport connection of ai.live.connect
  clock,                      \* outputAudioContext.currentTime
  \* counters
  nMsgs, nSrc, nStops, nFrames,
  \* history
  botDeltas,                  \* bot deltas since the bot accumulator was cleared
  log                         \* what the last step did

fields ==
  <<session, sessionPromise, inputAudioContext, outputAudioContext, mediaStream,
    source, scriptProcessor, outputSources, nextStartTime,
    currentInputTranscription, currentOutputTranscription, currentGrounding>>

app == <<status, errorMessage, statusRef, transcript, geminiServiceRef>>

\* What only the capture pipeline and a second start of App change.
env == <<apiKey, prevConn, outbox, nFrames>>

vars ==
  <<fields, startPc, openPc, pending, app, env, conn, clock,
    nMsgs, nSrc, nStops, botDeltas, log>>

NoRel ==
  [close |-> 0, tracks |-> 0, source |-> 0, processor |-> 0,
   inputClose |-> 0, outputClose |-> 0]

NoMessage ==
  [interrupted |-> FALSE, hasInput |-> FALSE, inputText |-> "",
   hasOutput |-> FALSE, outputText |-> "", hasChunks |-> FALSE, chunks |-> <<>>,
   audio |-> FALSE, turnComplete |-> FALSE]

\* The fields a message handler works on, as a step found them.
NoPre == [input |-> "", output |-> "", grounding |-> <<>>, wm |-> 0, sources |-> {}]

\* Whether a step ran the turn-complete branch, and the accumulators it found.
NoTurnComplete ==
  [ran |-> FALSE, input |-> "", output |-> "", grounding |-> <<>>,
   deltas |-> <<>>]

\* The record of one step: the callbacks it made (out: onTranscriptUpdate,
\* status: onStatusUpdate, message: the message given with ERROR), the
\* sources it stopped and started, the values it
\* wrote to nextStartTime in order, the releases stopSession made in it, and
\* for a message handler the fields as it found them (pre, tc).  ev is the
\* order of the callbacks and of the audio scheduling within the step; was
\* and ref are status and statusRef.current as the step found them; failure
\* tells that the step handled a failure and greeting how the greeting of
\* playGreetingAndStartSession ended; cues counts the calls of playProcessing
\* of the step; frame is the microphone frame the
\* step produced (0: none) and sent the frames it handed to the transport.
Log(op) ==
  [op |-> op, msg |-> NoMessage, out |-> <<>>, status |-> <<>>,
   message |-> "", raw |-> "", stops |-> {},
   sched |-> <<>>, wm |-> <<>>, stop |-> FALSE, rel |-> NoRel,
   pre |-> NoPre, tc |-> NoTurnComplete,
   ev |-> <<>>, was |-> status, ref |-> statusRef, failure |-> FALSE,
   greeting |-> "none", cues |-> 0, frame |-> 0, sent |-> <<>>]

Turn(author, text, isFinal, grounding, by) ==
  [author |-> author, text |-> text, isFinal |-> isFinal,
   grounding |-> grounding, by |-> by]

Init ==
  /\ session = "null" /\ sessionPromise = "null"
  /\ inputAudioContext = "null" /\ outputAudioContext = "null"
  /\ mediaStream = "null" /\ source = "null" /\ scriptProcessor = "null"
  /\ outputSources = {} /\ nextStartTime = 0
  /\ currentInputTranscription = "" /\ currentOutputTranscription = ""
  /\ currentGrounding = <<>>
  /\ startPc = "new" /\ openPc = "idle" /\ pending = <<>>
  /\ outbox = <<>>
  /\ status = "IDLE" /\ errorMessage = "null" /\ statusRef = "IDLE"
  /\ transcript = <<>> /\ geminiServiceRef = "null"
  /\ apiKey \in BOOLEAN /\ prevConn = "none"
  /\ conn = "none" /\ clock = 0
  /\ nMsgs = 0 /\ nSrc = 0 /\ nStops = 0 /\ nFrames = 0
  /\ botDeltas = <<>> /\ log = Log("init")

\* ----------------------------------------------------- handleStatusUpdate
DefaultMessage == "An error occurred. Please try again."

\* Mutant of handleStatusUpdate: only ERROR is taken over.
handleStatusUpdateOnError(newStatus, message) ==
  IF newStatus = "ERROR"
  THEN status' = "ERROR" /\ errorMessage' = message
  ELSE UNCHANGED <<status, errorMessage>>

\* setStatus(newStatus); the message (or the default one) is kept with ERROR
\* and dropped with any other status.
handleStatusUpdate(newStatus, message) ==
  /\ status' = newStatus
  /\ errorMessage' =
       IF newStatus = "ERROR"
       THEN (IF message # "" THEN message ELSE DefaultMessage)
       ELSE "null"

\* The calls of onStatusUpdate one step makes, in order: the last one stands.
Notify(statuses, message) ==
  IF statuses = <<>>
  THEN UNCHANGED <<status, errorMessage>>
  ELSE handleStatusUpdate(statuses[Len(statuses)], message)

\* The calls of playProcessing these calls of onStatusUpdate make: one for
\* each PROCESSING given while statusRef.current is not PROCESSING (the ref
\* is written when App renders, not by the calls).
playProcessing(ref, statuses) ==
  Cardinality({k \in 1..Len(statuses) :
                 statuses[k] = "PROCESSING" /\ ref # "PROCESSING"})

\* App renders: statusRef.current = status.
render ==
  /\ statusRef # status
  /\ statusRef' = status
  /\ UNCHANGED <<fields, startPc, openPc, pending, status, errorMessage,
                 transcript, geminiServiceRef, env, conn, clock,
                 nMsgs, nSrc, nStops, botDeltas, log>>

\* --------------------------------------------------- handleTranscriptUpdate
\* Mutant of findLastIndex: the last turn of the author, final or not.
findLastIndexOfAuthor(prev, author) ==
  LET found == {i \in 1..Len(prev) : prev[i].author = author}
  IN IF found = {} THEN 0 ELSE CHOOSE i \in found : \A j \in found : j <= i

\* prev.findLastIndex(turn => turn.author === author && !turn.isFinal), 0
\* for -1.
findLastIndex(prev, author) ==
  LET found == {i \in 1..Len(prev) : prev[i].author = author /\ ~prev[i].isFinal}
  IN IF found = {} THEN 0 ELSE CHOOSE i \in found : \A j \in found : j <= i

\* Mutant of handleTranscriptUpdate: the turn is always added.
handleTranscriptUpdateAdding(prev, newTurn) == Append(prev, newTurn)

\* setTranscript(prev => ...): the non-final turn of the author is replaced,
\* or the turn is added.
handleTranscriptUpdate(prev, newTurn) ==
  LET lastTurnIndex == findLastIndex(prev, newTurn.author)
  IN IF lastTurnIndex # 0
     THEN [prev EXCEPT ![lastTurnIndex] = newTurn]
     ELSE Append(prev, newTurn)

RECURSIVE TranscriptAfter(_, _, _)
TranscriptAfter(prev, turns, i) ==
  IF i > Len(turns) THEN prev
  ELSE TranscriptAfter(handleTranscriptUpdate(prev, turns[i]), turns, i + 1)

\* The callbacks of one step on App: the turns, the statuses (ERROR clears
\* the transcript; no step emits turns and ERROR together).
Callbacks(turns, statuses, message) ==
  /\ Notify(statuses, message)
  /\ transcript' =
       IF \E k \in 1..Len(statuses) : statuses[k] = "ERROR"
       THEN <<>>
       ELSE TranscriptAfter(transcript, turns, 1)
  /\ UNCHANGED <<statusRef, geminiServiceRef>>

\* ------------------------------------------------- handleSessionMessage
\* The handler works on the fields below; Work is their value when it starts.
\* out, status, stops and wm collect what the handler does, in order.
Work ==
  [input |-> currentInputTranscription, output |-> currentOutputTranscription,
   grounding |-> currentGrounding, sources |-> outputSources,
   wm |-> nextStartTime, deltas |-> botDeltas,
   out |-> <<>>, status |-> <<>>, stops |-> {}, wmlog |-> <<>>, ev |-> <<>>]

\* Mutant of FlushBot: the final bot turn is emitted and the accumulator kept.
FlushBotKeeping(w, by) ==
  IF w.output # ""
  THEN [w EXCEPT !.out = @ \o <<Turn("bot", w.output, TRUE, w.grounding, by)>>,
                 !.ev = @ \o <<[kind |-> "turn", by |-> by]>>]
  ELSE w

\* if (this.currentOutputTranscription) { emit final bot turn; clear text and grounding }
FlushBot(w, by) ==
  IF w.output # ""
  THEN [w EXCEPT !.out = @ \o <<Turn("bot", w.output, TRUE, w.grounding, by)>>,
                 !.ev = @ \o <<[kind |-> "turn", by |-> by]>>,
                 !.output = "", !.grounding = <<>>, !.deltas = <<>>]
  ELSE w

\* Mutant of FlushUser: the final user turn is emitted without the test.
FlushUserAlways(w, by) ==
  [w EXCEPT !.out = @ \o <<Turn("user", w.input, TRUE, <<>>, by)>>,
                 !.ev = @ \o <<[kind |-> "turn", by |-> by]>>,
            !.input = ""]

\* if (this.currentInputTranscription) { emit final user turn; clear text }
FlushUser(w, by) ==
  IF w.input # ""
  THEN [w EXCEPT !.out = @ \o <<Turn("user", w.input, TRUE, <<>>, by)>>,
                 !.ev = @ \o <<[kind |-> "turn", by |-> by]>>,
                 !.input = ""]
  ELSE w

\* Mutant of Interrupted: the watermark is left as it is.
InterruptedKeepingWatermark(w, m) ==
  IF m.interrupted
  THEN FlushBot([w EXCEPT !.stops = {s.id : s \in w.sources},
                          !.sources = {}],
                "interrupted")
  ELSE w

\* Mutant of Interrupted: the interruption finalizes the user turn as well.
InterruptedFlushingUser(w, m) ==
  IF m.interrupted
  THEN FlushBot(FlushUser([w EXCEPT !.stops = {s.id : s \in w.sources},
                                    !.sources = {},
                                    !.wm = 0,
                                    !.wmlog = @ \o <<[val |-> 0, by |-> "interrupted"]>>],
                          "interrupted"),
                "interrupted")
  ELSE w

\* if (message.serverContent?.interrupted) { ... }
Interrupted(w, m) ==
  IF m.interrupted
  THEN FlushBot([w EXCEPT !.stops = {s.id : s \in w.sources},
                          !.sources = {},
                          !.wm = 0,
                          !.wmlog = @ \o <<[val |-> 0, by |-> "interrupted"]>>],
                "interrupted")
  ELSE w

\* Mutant of SetInput: the partial is appended.
SetInputAppending(acc, text) == acc \o text

\* this.currentInputTranscription = text
SetInput(acc, text) == text

\* Mutant of InputTranscription: the status is emitted after the turn.
InputTranscriptionStatusLast(w, m) ==
  IF m.hasInput
  THEN LET acc == SetInput(w.input, m.inputText)
       IN [w EXCEPT !.status = @ \o <<"PROCESSING">>,
                    !.input = acc,
                    !.out = @ \o <<Turn("user", acc, FALSE, <<>>, "input")>>,
                    !.ev = @ \o <<[kind |-> "turn", by |-> "input"],
                                  [kind |-> "status", by |-> "input"]>>]
  ELSE w

\* if (message.serverContent?.inputTranscription) { ... }
InputTranscription(w, m) ==
  IF m.hasInput
  THEN LET acc == SetInput(w.input, m.inputText)
       IN [w EXCEPT !.status = @ \o <<"PROCESSING">>,
                    !.input = acc,
                    !.out = @ \o <<Turn("user", acc, FALSE, <<>>, "input")>>,
                    !.ev = @ \o <<[kind |-> "status", by |-> "input"],
                                  [kind |-> "turn", by |-> "input"]>>]
  ELSE w

\* Mutant of AddOutput: the delta replaces the accumulator.
AddOutputReplacing(acc, text) == text

\* this.currentOutputTranscription += text
AddOutput(acc, text) == acc \o text

\* Mutant of OutputTranscription: the chunks of the message are added to
\* the grounding buffer.
OutputTranscriptionExtending(w, m) ==
  IF m.hasOutput
  THEN LET acc == AddOutput(w.output, m.outputText)
           gr == IF m.hasChunks
                 THEN w.grounding \o GroundingOf(m.chunks)
                 ELSE w.grounding
       IN [w EXCEPT !.status = @ \o <<"SPEAKING">>,
                    !.output = acc,
                    !.deltas = @ \o <<m.outputText>>,
                    !.grounding = gr,
                    !.out = @ \o <<Turn("bot", acc, FALSE, gr, "output")>>,
                    !.ev = @ \o <<[kind |-> "status", by |-> "output"],
                                  [kind |-> "turn", by |-> "output"]>>]
  ELSE w

\* if (message.serverContent?.outputTranscription) { ... }
OutputTranscription(w, m) ==
  IF m.hasOutput
  THEN LET acc == AddOutput(w.output, m.outputText)
           gr == IF m.hasChunks THEN GroundingOf(m.chunks) ELSE w.grounding
       IN [w EXCEPT !.status = @ \o <<"SPEAKING">>,
                    !.output = acc,
                    !.deltas = @ \o <<m.outputText>>,
                    !.grounding = gr,
                    !.out = @ \o <<Turn("bot", acc, FALSE, gr, "output")>>,
                    !.ev = @ \o <<[kind |-> "status", by |-> "output"],
                                  [kind |-> "turn", by |-> "output"]>>]
  ELSE w

\* Mutant of Clamp: the watermark is set to the clock.
ClampToNow(wm, now) == now

\* this.nextStartTime = Math.max(this.nextStartTime, currentTime)
Clamp(wm, now) == Max(wm, now)

\* Mutant of PlayBegin: the watermark is not raised to the clock.
PlayBeginUnclamped(w, m) ==
  IF m.audio /\ outputAudioContext # "null"
  THEN [w EXCEPT !.wmlog = @ \o <<[val |-> w.wm, by |-> "clamp"]>>,
                 !.ev = @ \o <<[kind |-> "audio", by |-> "audio"]>>]
  ELSE w

\* playStreamedAudio up to its await: nothing when there is no output context.
PlayBegin(w, m) ==
  IF m.audio /\ outputAudioContext # "null"
  THEN LET v == Clamp(w.wm, clock)
       IN [w EXCEPT !.wm = v, !.wmlog = @ \o <<[val |-> v, by |-> "clamp"]>>,
                    !.ev = @ \o <<[kind |-> "audio", by |-> "audio"]>>]
  ELSE w

\* if (message.serverContent?.turnComplete) { ... }
TurnComplete(w, turnComplete) ==
  IF turnComplete
  THEN FlushBot(FlushUser([w EXCEPT !.status = @ \o <<"LISTENING">>,
                                    !.ev = @ \o <<[kind |-> "status",
                                                   by |-> "turnComplete"]>>],
                          "turnComplete"),
                "turnComplete")
  ELSE w

\* The handler suspends in playStreamedAudio exactly when the message carries
\* audio and the output context exists.
Suspends(m) == m.audio /\ outputAudioContext # "null"

\* A suspended call: what is left to do (turnComplete), the watermark when
\* playStreamedAudio was entered, and whether an interruption was handled
\* since.
Suspended(m) ==
  [turnComplete |-> m.turnComplete, wmIn |-> Interrupted(Work, m).wm,
   stale |-> FALSE]

MarkStale(hs, yes) ==
  [i \in 1..Len(hs) |-> [hs[i] EXCEPT !.stale = @ \/ yes]]

Pre(w) ==
  [input |-> w.input, output |-> w.output, grounding |-> w.grounding,
   wm |-> w.wm, sources |-> w.sources]

TurnCompleteLog(w, ran) ==
  IF ran
  THEN [ran |-> TRUE, input |-> w.input, output |-> w.output,
        grounding |-> w.grounding, deltas |-> w.deltas]
  ELSE NoTurnComplete

Commit(w) ==
  /\ currentInputTranscription' = w.input
  /\ currentOutputTranscription' = w.output
  /\ currentGrounding' = w.grounding
  /\ outputSources' = w.sources
  /\ nextStartTime' = w.wm
  /\ botDeltas' = w.deltas

\* onmessage: the handler up to its first suspension, or to its end.
handleSessionMessage(m) ==
  /\ conn = "open"
  /\ LET w1 == PlayBegin(OutputTranscription(InputTranscription(
                 Interrupted(Work, m), m), m), m)
         w == IF Suspends(m) THEN w1 ELSE TurnComplete(w1, m.turnComplete)
     IN /\ Commit(w)
        /\ pending' = MarkStale(pending, m.interrupted)
                        \o (IF Suspends(m) THEN <<Suspended(m)>> ELSE <<>>)
        /\ log' = [Log("message") EXCEPT !.msg = m, !.out = w.out,
                     !.status = w.status, !.stops = w.stops, !.wm = w.wmlog,
                     !.pre = Pre(Work), !.ev = w.ev,
                     !.cues = playProcessing(statusRef, w.status),
                     !.tc = TurnCompleteLog(w1, m.turnComplete /\ ~Suspends(m))]
        /\ Callbacks(w.out, w.status, "")
  /\ nMsgs' = nMsgs + 1
  /\ UNCHANGED <<session, sessionPromise, inputAudioContext, outputAudioContext,
                 mediaStream, source, scriptProcessor, startPc, openPc, env,
                 conn, clock, nSrc, nStops>>

\* ------------------------------------------------------ playStreamedAudio
\* The durations decodeAudioData may give the decoded buffer.
Durations == {1, 2}

\* Mutant of Advance: the duration is assigned, not added.
AdvanceAssigning(wm, dur) == dur

\* this.nextStartTime += audioBuffer.duration
Advance(wm, dur) == wm + dur

RemoveAt(s, i) == SubSeq(s, 1, i - 1) \o SubSeq(s, i + 1, Len(s))

\* The decode of suspended call i completes with a buffer of duration d: the
\* rest of playStreamedAudio runs, then the rest of handleSessionMessage.
DecodeDone(i, d) ==
  /\ i \in 1..Len(pending)
  /\ LET h == pending[i]
         node == [id |-> nSrc + 1, start |-> nextStartTime, dur |-> d,
                  end |-> Max(nextStartTime, clock) + d]
         v == Advance(nextStartTime, d)
         w0 == [Work EXCEPT !.sources = @ \cup {node}, !.wm = v,
                            !.wmlog = <<[val |-> v, by |-> "advance"]>>,
                            !.ev = <<[kind |-> "schedule", by |-> "audio"]>>]
         w == TurnComplete(w0, h.turnComplete)
     IN /\ Commit(w)
        /\ log' = [Log("decode") EXCEPT !.out = w.out, !.status = w.status,
                     !.wm = w.wmlog, !.pre = Pre(Work), !.ev = w.ev,
                     !.cues = playProcessing(statusRef, w.status),
                     !.tc = TurnCompleteLog(w0, h.turnComplete),
                     !.sched = <<[node |-> node, wmBefore |-> nextStartTime,
                                  call |-> h]>>]
        /\ Callbacks(w.out, w.status, "")
  /\ pending' = RemoveAt(pending, i)
  /\ nSrc' = nSrc + 1
  /\ UNCHANGED <<session, sessionPromise, inputAudioContext, outputAudioContext,
                 mediaStream, source, scriptProcessor, startPc, openPc, env,
                 conn, clock, nMsgs, nStops>>

\* Mutant of SourceEnded: the listener leaves the source in the set.
SourceEndedKeeping(node) ==
  /\ node \in outputSources
  /\ outputAudioContext \in {"running", "closing"}
  /\ clock >= node.end
  /\ log' = Log("ended")
  /\ UNCHANGED <<fields, startPc, openPc, pending, app, env, conn,
                 clock, nMsgs, nSrc, nStops, botDeltas>>

\* source.addEventListener('ended', ...): a started source that has played out.
SourceEnded(node) ==
  /\ node \in outputSources
  /\ outputAudioContext \in {"running", "closing"}
  /\ clock >= node.end
  /\ outputSources' = outputSources \ {node}
  /\ log' = Log("ended")
  /\ UNCHANGED <<session, sessionPromise, inputAudioContext, outputAudioContext,
                 mediaStream, source, scriptProcessor, nextStartTime,
                 currentInputTranscription, currentOutputTranscription,
                 currentGrounding, startPc, openPc, pending, app, env, conn,
                 clock, nMsgs, nSrc, nStops, botDeltas>>

\* The output context plays what is scheduled: its clock advances as long
\* as a started source has not played out.
Play ==
  /\ outputAudioContext \in {"running", "closing"}
  /\ \E node \in outputSources : clock < node.end
  /\ clock' = clock + 1
  /\ log' = Log("tick")
  /\ UNCHANGED <<fields, startPc, openPc, pending, app, env, conn,
                 nMsgs, nSrc, nStops, botDeltas>>

\* The audio clock of the output context advances while the context renders.
Tick ==
  /\ outputAudioContext \in {"running", "closing"}
  /\ clock < MaxClock
  /\ clock' = clock + 1
  /\ log' = Log("tick")
  /\ UNCHANGED <<fields, startPc, openPc, pending, app, env, conn,
                 nMsgs, nSrc, nStops, botDeltas>>

\* ------------------------------------------------------------ stopSession
\* AudioContext.close() is not awaited.  A platform that follows the Web Audio
\* specification sets state to 'closed' in a later task ("closing" until then);
\* others set it inside close().  Both are outcomes of one close() call.
AfterClose == {"closing", "closed"}

\* if (ctx && ctx.state !== 'closed') ctx.close()
Closes(ctx) == ctx # "null" /\ ctx # "closed"

\* The releases one call of stopSession makes from the current state.
StopRel ==
  [close |-> IF session # "null" THEN 1 ELSE 0,
   tracks |-> IF mediaStream # "null" THEN 1 ELSE 0,
   source |-> IF source # "null" THEN 1 ELSE 0,
   processor |-> IF scriptProcessor # "null" THEN 1 ELSE 0,
   inputClose |-> IF Closes(inputAudioContext) THEN 1 ELSE 0,
   outputClose |-> IF Closes(outputAudioContext) THEN 1 ELSE 0]

\* The body of stopSession, on every field it touches and on the connection
\* (c when this.session is null and nothing is closed here; a connection
\* that has ended stays so).
StopEffect(c, after) ==
  /\ session' = "null"
  /\ conn' = IF conn = "ended" THEN "ended"
             ELSE IF session # "null" THEN "closed" ELSE c
  /\ mediaStream' = "null"
  /\ source' = "null"
  /\ scriptProcessor' = "null"
  /\ inputAudioContext' =
       IF Closes(inputAudioContext) THEN after ELSE inputAudioContext
  /\ outputAudioContext' =
       IF Closes(outputAudioContext) THEN after ELSE outputAudioContext
  /\ outputSources' = {}
  /\ sessionPromise' = "null"

StopLog(op, statuses) ==
  [Log(op) EXCEPT !.status = statuses, !.stop = TRUE, !.rel = StopRel,
                  !.stops = {s.id : s \in outputSources}]

\* The caller stops the session of the service it has constructed.
stopSession ==
  /\ startPc \notin {"new", "failed"}
  /\ nStops < MaxStops
  /\ nStops' = nStops + 1
  /\ \E after \in AfterClose : StopEffect(conn, after)
  /\ log' = StopLog("stopSession", <<>>)
  /\ UNCHANGED <<nextStartTime, currentInputTranscription,
                 currentOutputTranscription, currentGrounding, startPc, openPc,
                 pending, app, env, clock, nMsgs, nSrc, botDeltas>>

\* The task that completes a close() sets the context's state to 'closed'.
ContextClosed ==
  /\ "closing" \in {inputAudioContext, outputAudioContext}
  /\ inputAudioContext' =
       IF inputAudioContext = "closing" THEN "closed" ELSE inputAudioContext
  /\ outputAudioContext' =
       IF outputAudioContext = "closing" THEN "closed" ELSE outputAudioContext
  /\ log' = Log("closed")
  /\ UNCHANGED <<session, sessionPromise, mediaStream, source, scriptProcessor,
                 outputSources, nextStartTime, currentInputTranscription,
                 currentOutputTranscription, currentGrounding, startPc, openPc,
                 pending, app, env, conn, clock, nMsgs, nSrc, nStops,
                 botDeltas>>

\* ----------------------------------------------------- starting a session
ApiKeyMessage == "API_KEY environment variable not set"

\* Mutant of constructorThrows: the credential is not checked.
constructorNeverThrows == FALSE

\* constructor: if (!process.env.API_KEY) throw new Error(...)
constructorThrows == ~apiKey

\* playGreetingAndStartSession up to its first await.
playGreetingAndStartSession ==
  /\ startPc = "new"
  /\ outputAudioContext' = "running"
  /\ startPc' = "greeting"
  /\ log' = Log("start")
  /\ UNCHANGED <<session, sessionPromise, inputAudioContext, mediaStream,
                 source, scriptProcessor, outputSources, nextStartTime,
                 currentInputTranscription, currentOutputTranscription,
                 currentGrounding, openPc, pending, env, conn, clock,
                 nMsgs, nSrc, nStops, botDeltas>>

\* startConversation of App: the status is set to GREETING, the service is
\* constructed and started; a constructor that throws is reported as ERROR
\* with the message of the exception.
startConversation ==
  /\ startPc = "new"
  /\ status \in {"IDLE", "ERROR"}
  /\ IF constructorThrows
     THEN /\ Callbacks(<<>>, <<"ERROR">>, ApiKeyMessage)
          /\ startPc' = "failed"
          /\ log' = [Log("startFailed") EXCEPT !.status = <<"ERROR">>,
                                                !.message = ApiKeyMessage,
                                                !.failure = TRUE]
          /\ UNCHANGED <<fields, openPc, pending, env, conn, clock,
                         nMsgs, nSrc, nStops, botDeltas>>
     ELSE /\ playGreetingAndStartSession
          /\ status' = "GREETING"
          /\ transcript' = <<>>
          /\ geminiServiceRef' = "set"
          /\ UNCHANGED <<errorMessage, statusRef>>

\* How the try block of playGreetingAndStartSession ends: the greeting was
\* played to its end, the response held no audio (console.warn), or the
\* generation or the decoding threw (console.error in the catch block).
GreetingOutcomes == {"played", "missing", "failed"}

\* Mutant of startLiveSession: the microphone is requested together with the
\* connection.
startLiveSessionAcquiring ==
  /\ startPc = "greeting"
  /\ inputAudioContext' = "running"
  /\ sessionPromise' = "set"
  /\ conn' = "opening"
  /\ startPc' = "connecting"
  /\ openPc' = "acquiring"
  /\ \E greeting \in GreetingOutcomes :
       log' = [Log("connect") EXCEPT !.greeting = greeting,
                                     !.failure = (greeting = "failed")]
  /\ UNCHANGED <<session, outputAudioContext, mediaStream, source,
                 scriptProcessor, outputSources, nextStartTime,
                 currentInputTranscription, currentOutputTranscription,
                 currentGrounding, pending, app, env, clock,
                 nMsgs, nSrc, nStops, botDeltas>>

\* The greeting is over (played, missing or failed): _startLiveSession up to
\* its await of the connection.
startLiveSession ==
  /\ startPc = "greeting"
  /\ inputAudioContext' = "running"
  /\ sessionPromise' = "set"
  /\ conn' = "opening"
  /\ startPc' = "connecting"
  /\ \E greeting \in GreetingOutcomes :
       log' = [Log("connect") EXCEPT !.greeting = greeting,
                                     !.failure = (greeting = "failed")]
  /\ UNCHANGED <<session, outputAudioContext, mediaStream, source,
                 scriptProcessor, outputSources, nextStartTime,
                 currentInputTranscription, currentOutputTranscription,
                 currentGrounding, openPc, pending, app, env, clock,
                 nMsgs, nSrc, nStops, botDeltas>>

\* The handshake succeeds: onopen runs handleSessionOpen up to its await of
\* getUserMedia, then the awaited connection is assigned to this.session.
handleSessionOpen ==
  /\ conn = "opening"
  /\ conn' = "open"
  /\ session' = "live"
  /\ startPc' = "done"
  /\ openPc' = "acquiring"
  /\ log' = [Log("open") EXCEPT !.status = <<"LISTENING">>]
  /\ Callbacks(<<>>, <<"LISTENING">>, "")
  /\ UNCHANGED <<sessionPromise, inputAudioContext, outputAudioContext,
                 mediaStream, source, scriptProcessor, outputSources,
                 nextStartTime, currentInputTranscription,
                 currentOutputTranscription, currentGrounding, pending, env,
                 clock, nMsgs, nSrc, nStops, botDeltas>>

\* getUserMedia resolves: the rest of handleSessionOpen's try block.
micGranted ==
  /\ openPc = "acquiring"
  /\ openPc' = "done"
  /\ mediaStream' = "live"
  /\ source' = IF inputAudioContext = "null" THEN source ELSE "connected"
  /\ scriptProcessor' =
       IF inputAudioContext = "null" THEN scriptProcessor ELSE "connected"
  /\ log' = Log("micGranted")
  /\ UNCHANGED <<session, sessionPromise, inputAudioContext, outputAudioContext,
                 outputSources, nextStartTime, currentInputTranscription,
                 currentOutputTranscription, currentGrounding, startPc, pending,
                 app, env, conn, clock, nMsgs, nSrc, nStops, botDeltas>>

MicMessage ==
  "Microphone access denied. Please enable it in your browser settings."

\* Mutant of micDenied: the error is reported and the acquisition is left
\* to be tried again, with no teardown.
micDeniedRetrying ==
  /\ openPc = "acquiring"
  /\ nStops < MaxStops
  /\ nStops' = nStops + 1
  /\ log' = [Log("micDenied") EXCEPT !.status = <<"ERROR">>,
                                      !.message = MicMessage,
                                      !.failure = TRUE]
  /\ Callbacks(<<>>, <<"ERROR">>, MicMessage)
  /\ UNCHANGED <<fields, startPc, openPc, pending, env, conn, clock,
                 nMsgs, nSrc, botDeltas>>

\* getUserMedia rejects: handleSessionOpen's catch block.
micDenied ==
  /\ openPc = "acquiring"
  /\ openPc' = "done"
  /\ \E after \in AfterClose : StopEffect(conn, after)
  /\ log' = [StopLog("micDenied", <<"ERROR">>) EXCEPT !.message = MicMessage,
                                                      !.failure = TRUE]
  /\ Callbacks(<<>>, <<"ERROR">>, MicMessage)
  /\ UNCHANGED <<nextStartTime, currentInputTranscription,
                 currentOutputTranscription, currentGrounding, startPc, pending,
                 env, clock, nMsgs, nSrc, nStops, botDeltas>>

\* ------------------------------------------------------ handleSessionError
UpperCase == "ABCDEFGHIJKLMNOPQRSTUVWXYZ"
LowerCase == "abcdefghijklmnopqrstuvwxyz"

\* The character of s at position i, as a string.
CharAt(s, i) == SubSeq(s, i, i)

LowerChar(c) ==
  IF \E i \in 1..Len(UpperCase) : CharAt(UpperCase, i) = c
  THEN CharAt(LowerCase, CHOOSE i \in 1..Len(UpperCase) : CharAt(UpperCase, i) = c)
  ELSE c

RECURSIVE ToLowerFrom(_, _)
ToLowerFrom(s, i) ==
  IF i > Len(s) THEN "" ELSE LowerChar(CharAt(s, i)) \o ToLowerFrom(s, i + 1)

\* e.message.toLowerCase()
toLowerCase(s) == ToLowerFrom(s, 1)

\* message.includes(pattern)
includes(s, pattern) ==
  \E i \in 1..(Len(s) - Len(pattern) + 1) :
    SubSeq(s, i, i + Len(pattern) - 1) = pattern

\* Mutant of UnknownMessage: the unknown error has no message.
UnknownMessageEmpty == ""

UnknownMessage == "An unexpected error occurred with the AI service."
InvalidKeyMessage == "The API key is invalid. Please check your configuration."
NetworkMessage ==
  "A network error occurred. Please check your internet connection."
PermissionMessage ==
  "Could not connect to the AI service due to a permission issue."
QuotaMessage == "You have exceeded your API quota. Please check your account."

\* Mutant of userMessage: every error gets the message of the unknown error.
userMessageUnclassified(raw) == UnknownMessage

\* Mutant of userMessage: the patterns are tried in the opposite order.
userMessageQuotaFirst(raw) ==
  IF raw = "" THEN UnknownMessage
  ELSE LET message == toLowerCase(raw)
       IN IF includes(message, "quota") THEN QuotaMessage
          ELSE IF includes(message, "permission denied") THEN PermissionMessage
          ELSE IF includes(message, "network")
                    \/ includes(message, "failed to fetch") THEN NetworkMessage
          ELSE IF includes(message, "api key not valid") THEN InvalidKeyMessage
          ELSE UnknownMessage

\* let userMessage = ...; if (e.message) { ... }
userMessage(raw) ==
  IF raw = "" THEN UnknownMessage
  ELSE LET message == toLowerCase(raw)
       IN IF includes(message, "api key not valid") THEN InvalidKeyMessage
          ELSE IF includes(message, "network")
                    \/ includes(message, "failed to fetch") THEN NetworkMessage
          ELSE IF includes(message, "permission denied") THEN PermissionMessage
          ELSE IF includes(message, "quota") THEN QuotaMessage
          ELSE UnknownMessage

\* Raw messages of error events and of exceptions of the connect call.
RawMessages ==
  {"", "boom", "API key not valid. Please pass a valid API key.",
   "API key expired", "Network error", "TypeError: Failed to fetch",
   "fetch failed", "PERMISSION DENIED", "Quota exceeded"}

\* Raw messages that match several patterns of the classifier, or none.
OverlappingMessages ==
  {"", "boom", "Quota exceeded", "Network error: API key not valid",
   "Quota: Failed to fetch", "quota and permission denied",
   "Permission denied on network"}

\* userMessage, tabulated over the raw messages.
Classified ==
  [raw \in RawMessages \cup OverlappingMessages |-> userMessage(raw)]

\* The body of handleSessionError on an error with the given message:
\* onStatusUpdate(ERROR, userMessage), then stopSession.
SessionError(op, raw, c) ==
  /\ \E after \in AfterClose : StopEffect(c, after)
  /\ log' = [StopLog(op, <<"ERROR">>) EXCEPT !.message = Classified[raw],
                                             !.raw = raw, !.failure = TRUE]
  /\ Callbacks(<<>>, <<"ERROR">>, Classified[raw])

\* Mutant of handleSessionError: the error is reported, nothing is torn down.
handleSessionErrorOnly(raw) ==
  /\ conn = "open"
  /\ conn' = "closed"
  /\ log' = [Log("error") EXCEPT !.status = <<"ERROR">>,
                                  !.message = Classified[raw], !.raw = raw,
                                  !.failure = TRUE]
  /\ Callbacks(<<>>, <<"ERROR">>, Classified[raw])
  /\ UNCHANGED <<session, sessionPromise, inputAudioContext, outputAudioContext,
                 mediaStream, source, scriptProcessor, outputSources,
                 nextStartTime, currentInputTranscription,
                 currentOutputTranscription, currentGrounding, startPc, openPc,
                 pending, env, clock, nMsgs, nSrc, nStops, botDeltas>>

\* The connection fails during the handshake: the await in _startLiveSession
\* throws and its catch block calls handleSessionError with the message of
\* the exception (the exception always has one here).
connectFailed(raw) ==
  /\ conn = "opening"
  /\ raw # ""
  /\ startPc' = "done"
  /\ SessionError("connectFailed", raw, "closed")
  /\ UNCHANGED <<nextStartTime, currentInputTranscription,
                 currentOutputTranscription, currentGrounding, openPc, pending,
                 env, clock, nMsgs, nSrc, nStops, botDeltas>>

\* The open connection reports an error (onerror) and is closed by it.
handleSessionError(raw) ==
  /\ conn = "open"
  /\ SessionError("error", raw, "closed")
  /\ UNCHANGED <<nextStartTime, currentInputTranscription,
                 currentOutputTranscription, currentGrounding, startPc, openPc,
                 pending, env, clock, nMsgs, nSrc, nStops, botDeltas>>

\* ------------------------------------------------------ handleSessionClose
\* Mutant of handleSessionClose: the close tears the session down when one
\* is held.
handleSessionCloseStopping ==
  /\ conn \in {"open", "closed"}
  /\ IF session # "null"
     THEN /\ \E after \in AfterClose : StopEffect("ended", after)
          /\ log' = StopLog("close", <<>>)
     ELSE /\ conn' = "ended"
          /\ log' = Log("close")
          /\ UNCHANGED <<session, sessionPromise, inputAudioContext,
                         outputAudioContext, mediaStream, source,
                         scriptProcessor, outputSources>>
  /\ UNCHANGED <<nextStartTime, currentInputTranscription,
                 currentOutputTranscription, currentGrounding, startPc, openPc,
                 pending, app, env, clock, nMsgs, nSrc, nStops, botDeltas>>

\* onclose: the connection has ended, by the engine or after a close or a
\* failure on this side.  The handler only writes to the console.
handleSessionClose ==
  /\ conn \in {"open", "closed"}
  /\ conn' = "ended"
  /\ log' = Log("close")
  /\ UNCHANGED <<fields, startPc, openPc, pending, app, env, clock,
                 nMsgs, nSrc, nStops, botDeltas>>

\* ---------------------------------------------------------------- capture
\* onopen runs while the connection promise is still pending: handleSessionOpen
\* up to its await of getUserMedia; this.session is not assigned yet.
handleSessionOpenPending ==
  /\ conn = "opening"
  /\ conn' = "open"
  /\ openPc' = "acquiring"
  /\ log' = [Log("open") EXCEPT !.status = <<"LISTENING">>]
  /\ Callbacks(<<>>, <<"LISTENING">>, "")
  /\ UNCHANGED <<session, sessionPromise, inputAudioContext, outputAudioContext,
                 mediaStream, source, scriptProcessor, outputSources,
                 nextStartTime, currentInputTranscription,
                 currentOutputTranscription, currentGrounding, startPc, pending,
                 env, clock, nMsgs, nSrc, nStops, botDeltas>>

\* The connection promise resolves: this.session = await this.sessionPromise,
\* and the callbacks chained on the promise run, in the order they were
\* chained.
connectResolved ==
  /\ startPc = "connecting"
  /\ conn = "open"
  /\ session' = "live"
  /\ startPc' = "done"
  /\ outbox' = <<>>
  /\ log' = [Log("resolved") EXCEPT !.sent = outbox]
  /\ UNCHANGED <<sessionPromise, inputAudioContext, outputAudioContext,
                 mediaStream, source, scriptProcessor, outputSources,
                 nextStartTime, currentInputTranscription,
                 currentOutputTranscription, currentGrounding, openPc, pending,
                 app, apiKey, prevConn, nFrames, conn, clock, nMsgs, nSrc,
                 nStops, botDeltas>>

\* scriptProcessor.onaudioprocess: a frame is captured.  With sessionPromise
\* null nothing is done with it; otherwise the send is chained on the
\* promise with then(), which runs it at once when the promise is resolved
\* and when it resolves otherwise.
onaudioprocess ==
  /\ scriptProcessor = "connected"
  /\ inputAudioContext \in {"running", "closing"}
  /\ nFrames < MaxFrames
  /\ nFrames' = nFrames + 1
  /\ LET frame == nFrames + 1
     IN IF sessionPromise = "null"
        THEN /\ outbox' = outbox
             /\ log' = [Log("frame") EXCEPT !.frame = frame]
        ELSE IF startPc = "connecting"
        THEN /\ outbox' = Append(outbox, frame)
             /\ log' = [Log("frame") EXCEPT !.frame = frame]
        ELSE /\ outbox' = outbox
             /\ log' = [Log("frame") EXCEPT !.frame = frame,
                                            !.sent = <<frame>>]
  /\ UNCHANGED <<fields, startPc, openPc, pending, app, apiKey, prevConn,
                 conn, clock, nMsgs, nSrc, nStops, botDeltas>>

\* ------------------------------------------------------------------ App
\* stopConversation of App: the service App holds is stopped and let go, the
\* status is set to IDLE and the transcript emptied.
stopConversation ==
  /\ nStops < MaxStops
  /\ nStops' = nStops + 1
  /\ IF geminiServiceRef = "set"
     THEN /\ \E after \in AfterClose : StopEffect(conn, after)
          /\ log' = StopLog("stopConversation", <<>>)
     ELSE /\ log' = Log("stopConversation")
          /\ UNCHANGED <<session, sessionPromise, inputAudioContext,
                         outputAudioContext, mediaStream, source,
                         scriptProcessor, outputSources, conn>>
  /\ geminiServiceRef' = "null"
  /\ status' = "IDLE"
  /\ transcript' = <<>>
  /\ UNCHANGED <<nextStartTime, currentInputTranscription,
                 currentOutputTranscription, currentGrounding, startPc, openPc,
                 pending, errorMessage, statusRef, env, clock, nMsgs, nSrc,
                 botDeltas>>

\* startConversation of App when it has constructed a service before: a new
\* service is constructed and started, with fields of its own; the service
\* before it is left as it is, and of it the connection is followed on
\* (prevConn; "greeting" if it had not asked for one yet).  One such start
\* is followed.
restartConversation ==
  /\ startPc \notin {"new", "failed"}
  /\ prevConn = "none"
  /\ status \in {"IDLE", "ERROR"}
  /\ prevConn' = IF conn = "none" THEN "greeting" ELSE conn
  /\ session' = "null" /\ sessionPromise' = "null"
  /\ inputAudioContext' = "null" /\ outputAudioContext' = "running"
  /\ mediaStream' = "null" /\ source' = "null" /\ scriptProcessor' = "null"
  /\ outputSources' = {} /\ nextStartTime' = 0
  /\ currentInputTranscription' = "" /\ currentOutputTranscription' = ""
  /\ currentGrounding' = <<>>
  /\ startPc' = "greeting" /\ openPc' = "idle" /\ pending' = <<>>
  /\ conn' = "none" /\ clock' = 0 /\ botDeltas' = <<>>
  /\ status' = "GREETING"
  /\ transcript' = <<>>
  /\ geminiServiceRef' = "set"
  /\ log' = Log("restart")
  /\ UNCHANGED <<errorMessage, statusRef, apiKey, outbox, nFrames,
                 nMsgs, nSrc, nStops>>

\* The handshake of the service before succeeds: its onopen emits LISTENING
\* through the callbacks of App, which both services were given.
prevOpen ==
  /\ prevConn = "opening"
  /\ prevConn' = "open"
  /\ log' = [Log("prevOpen") EXCEPT !.status = <<"LISTENING">>]
  /\ Callbacks(<<>>, <<"LISTENING">>, "")
  /\ UNCHANGED <<fields, startPc, openPc, pending, apiKey, outbox, nFrames,
                 conn, clock, nMsgs, nSrc, nStops, botDeltas>>

\* ------------------------------------------------------- specifications
Msg(int, hasIn, inText, hasOut, outText, chunks, audio, tc) ==
  [interrupted |-> int, hasInput |-> hasIn, inputText |-> inText,
   hasOutput |-> hasOut, outputText |-> outText,
   hasChunks |-> chunks # <<>>, chunks |-> chunks,
   audio |-> audio, turnComplete |-> tc]

\* The session from construction to a live connection with the microphone.
Startup ==
  \/ startConversation
  \/ startLiveSession
  \/ handleSessionOpen
  \/ micGranted

\* Messages of the transcript: one field each, an output transcription with
\* or without grounding chunks, and a turn-complete that comes with audio.
TranscriptMessages ==
  { m \in AllMessages :
      \/ /\ Cardinality({f \in {"i", "u", "b", "a", "t"} :
                \/ f = "i" /\ m.interrupted
                \/ f = "u" /\ m.hasInput
                \/ f = "b" /\ m.hasOutput
                \/ f = "a" /\ m.audio
                \/ f = "t" /\ m.turnComplete}) = 1
         /\ m.hasChunks => m.hasOutput
         /\ m.chunks \in {<<>>, <<WebChunk>>, <<BareChunk, MapsChunk>>}
      \/ m = Msg(FALSE, FALSE, "", FALSE, "", <<>>, TRUE, TRUE) }

NextTranscript ==
  \/ Startup
  \/ \E m \in TranscriptMessages : nMsgs < MaxMsgs /\ handleSessionMessage(m)
  \/ \E i \in 1..Len(pending) : DecodeDone(i, 1)

SpecTranscript == Init /\ [][NextTranscript]_vars

\* Messages of the playback: audio, an interruption, both, and audio with a
\* bot delta and a grounding chunk.
PlaybackMessages ==
  { m \in AllMessages :
      /\ ~m.hasInput /\ ~m.turnComplete
      /\ m.hasOutput => (m.outputText = "a" /\ m.chunks = <<WebChunk>>
                           /\ ~m.interrupted /\ m.audio)
      /\ ~m.hasOutput => ~m.hasChunks
      /\ m.interrupted \/ m.audio }

NextPlayback ==
  \/ Startup
  \/ \E m \in PlaybackMessages : nMsgs < MaxPlayMsgs /\ handleSessionMessage(m)
  \/ \E i \in 1..Len(pending), d \in Durations : DecodeDone(i, d)
  \/ \E node \in outputSources : SourceEnded(node)
  \/ Tick

SpecPlayback == Init /\ [][NextPlayback]_vars

\* Messages of the whole session: audio, an interruption, and both.
Messages ==
  { m \in AllMessages :
      /\ ~m.hasInput /\ ~m.hasOutput /\ ~m.hasChunks /\ ~m.turnComplete
      /\ m.audio \/ m.interrupted }

\* The error of the whole session; the errors by their messages, and the end
\* of the connection, are in NextErrors.
SessionErrors == {"boom"}

Next ==
  \/ Startup
  \/ micDenied
  \/ \E raw \in SessionErrors : connectFailed(raw)
  \/ \E raw \in SessionErrors : handleSessionError(raw)
  \/ stopSession
  \/ ContextClosed
  \/ \E m \in Messages : nMsgs < MaxSessionMsgs /\ handleSessionMessage(m)
  \/ \E i \in 1..Len(pending), d \in Durations : DecodeDone(i, d)
  \/ \E node \in outputSources : SourceEnded(node)
  \/ Tick

Spec == Init /\ [][Next]_vars

\* The errors of a session: every raw message, at the handshake, on the open
\* connection and at the microphone, with the stops and closes around them.
NextErrors ==
  \/ Startup
  \/ micDenied
  \/ \E raw \in RawMessages : connectFailed(raw)
  \/ \E raw \in RawMessages : handleSessionError(raw)
  \/ handleSessionClose
  \/ stopSession
  \/ ContextClosed

SpecErrors == Init /\ [][NextErrors]_vars

\* The errors whose messages match several patterns, at the handshake and
\* on the open connection.
NextClassifier ==
  \/ Startup
  \/ micDenied
  \/ \E raw \in OverlappingMessages : connectFailed(raw)
  \/ \E raw \in OverlappingMessages : handleSessionError(raw)
  \/ handleSessionClose
  \/ stopSession

SpecClassifier == Init /\ [][NextClassifier]_vars

\* The scenario of the bot partials: bot deltas that are the successive
\* pieces of "Hi there", or its successive prefixes, and a turn-complete.
ScenarioTexts == {"H", "i", " there", "Hi", "Hi there"}

ScenarioMessages ==
  { Msg(FALSE, FALSE, "", TRUE, text, <<>>, FALSE, FALSE) : text \in ScenarioTexts }
    \cup { Msg(FALSE, FALSE, "", FALSE, "", <<>>, FALSE, TRUE) }

NextScenario ==
  \/ Startup
  \/ \E m \in ScenarioMessages :
       nMsgs < MaxScenarioMsgs /\ handleSessionMessage(m)

SpecScenario == Init /\ [][NextScenario]_vars

\* The capture pipeline from the start of the service on, with the
\* connection promise resolving at onopen or after it.
NextCapture ==
  \/ Startup
  \/ handleSessionOpenPending
  \/ connectResolved
  \/ onaudioprocess
  \/ micDenied
  \/ stopSession
  \/ ContextClosed

SpecCapture == Init /\ [][NextCapture]_vars

\* The playback to its end: the context keeps playing, every source that
\* has played out gets its 'ended' event, every decode completes.
Ended == \E node \in outputSources : SourceEnded(node)
Decoded == \E i \in 1..Len(pending), d \in Durations : DecodeDone(i, d)

NextDrain ==
  \/ Startup
  \/ \E m \in Messages : nMsgs < MaxSessionMsgs /\ handleSessionMessage(m)
  \/ Decoded
  \/ Ended
  \/ Play

SpecDrain ==
  /\ Init /\ [][NextDrain]_vars
  /\ WF_vars(Decoded) /\ WF_vars(Ended) /\ WF_vars(Play)

\* Messages of the grounding: a bot delta with chunks, with an empty list of
\* chunks and without chunks, an empty bot delta with chunks, chunks without
\* a bot delta (alone and with a
\* user partial), a turn-complete and an interruption.
GroundingMessages ==
  { Msg(FALSE, FALSE, "", TRUE, "a", <<WebChunk>>, FALSE, FALSE),
    Msg(FALSE, FALSE, "", TRUE, "b", <<BareChunk, MapsChunk>>, FALSE, FALSE),
    [Msg(FALSE, FALSE, "", TRUE, "a", <<>>, FALSE, FALSE)
       EXCEPT !.hasChunks = TRUE],
    Msg(FALSE, FALSE, "", TRUE, "a", <<>>, FALSE, FALSE),
    Msg(FALSE, FALSE, "", TRUE, "", <<WebChunk>>, FALSE, FALSE),
    Msg(FALSE, FALSE, "", FALSE, "", <<MapsChunk>>, FALSE, FALSE),
    Msg(FALSE, TRUE, "a", FALSE, "", <<WebChunk>>, FALSE, FALSE),
    Msg(FALSE, FALSE, "", FALSE, "", <<>>, FALSE, TRUE),
    Msg(TRUE, FALSE, "", FALSE, "", <<>>, FALSE, FALSE) }

NextGrounding ==
  \/ Startup
  \/ \E m \in GroundingMessages : nMsgs < MaxMsgs /\ handleSessionMessage(m)

SpecGrounding == Init /\ [][NextGrounding]_vars

\* Messages of App's status: a user partial and a turn-complete.
AppMessages ==
  { Msg(FALSE, TRUE, "a", FALSE, "", <<>>, FALSE, FALSE),
    Msg(FALSE, FALSE, "", FALSE, "", <<>>, FALSE, TRUE) }

\* App with its service: starts, stops and starts again, the renders of App
\* between the callbacks, and what the service reports.
NextApp ==
  \/ Startup
  \/ render
  \/ stopConversation
  \/ restartConversation
  \/ prevOpen
  \/ micDenied
  \/ \E raw \in SessionErrors : connectFailed(raw)
  \/ \E m \in AppMessages : nMsgs < MaxSessionMsgs /\ handleSessionMessage(m)

SpecApp == Init /\ [][NextApp]_vars

\* Messages whose handlers are still at work when the session ends: a user
\* partial, and a turn-complete that comes with audio.
LateMessages ==
  { Msg(FALSE, TRUE, "a", FALSE, "", <<>>, FALSE, FALSE),
    Msg(FALSE, FALSE, "", FALSE, "", <<>>, TRUE, TRUE) }

\* A session that is ended, by an error or by stopConversation, while its
\* callbacks are still to come.
NextLate ==
  \/ Startup
  \/ stopConversation
  \/ micDenied
  \/ \E raw \in SessionErrors : handleSessionError(raw)
  \/ \E m \in LateMessages : nMsgs < MaxSessionMsgs /\ handleSessionMessage(m)
  \/ \E i \in 1..Len(pending) : DecodeDone(i, 1)

SpecLate == Init /\ [][NextLate]_vars

\* ------------------------------------------------------------- properties
\* The turns the last step emitted for an author, partial or final.
IsPartial(turn, author) == turn.author = author /\ ~turn.isFinal
IsFinal(turn, author) == turn.author = author /\ turn.isFinal

PartialsOf(author) == {k \in 1..Len(log.out) : IsPartial(log.out[k], author)}
FinalsOf(author) == {k \in 1..Len(log.out) : IsFinal(log.out[k], author)}
FinalsBy(author, by) == {k \in FinalsOf(author) : log.out[k].by = by}

\* C1: the non-final bot turn emitted after a bot delta has as text the
\* concatenation, in arrival order, of the deltas received since the bot
\* accumulator was last cleared (the deltas are still in botDeltas unless the
\* same step went on to clear the accumulator).
C1_BotPartialIsConcatenation ==
  \A k \in PartialsOf("bot") :
    /\ log.msg.hasOutput
    /\ (\A j \in FinalsOf("bot") : j < k) =>
         /\ log.out[k].text = Concat(botDeltas)
         /\ currentOutputTranscription = Concat(botDeltas)

C1_Witness ==
  /\ PartialsOf("bot") # {}
  /\ Len(botDeltas) = 3
  /\ botDeltas[1] = "a" /\ botDeltas[2] = "b" /\ botDeltas[3] = "a"
  /\ log.out[1].text = "aba"

\* C2: the non-final user turn emitted after a user partial has that partial
\* as its text, and so has the user accumulator: earlier partials are gone.
C2_UserPartialReplaces ==
  \A k \in PartialsOf("user") :
    /\ log.msg.hasInput
    /\ log.out[k].text = log.msg.inputText
    /\ (\A j \in FinalsOf("user") : j < k) =>
         currentInputTranscription = log.msg.inputText

C2_Witness ==
  /\ PartialsOf("user") # {}
  /\ log.pre.input = "a"
  /\ log.msg.inputText = "b"
  /\ currentInputTranscription = "b"

\* C3: a step that processes a turn-complete emits, for each author, exactly
\* one final turn with the accumulator as its (non-empty) text when that
\* accumulator is non-empty, and no final turn when it is empty.
TurnCompleteFinal(author, acc) ==
  LET finals == FinalsBy(author, "turnComplete")
  IN IF acc # ""
     THEN /\ Cardinality(finals) = 1
          /\ \A k \in finals : log.out[k].text = acc /\ log.out[k].text # ""
     ELSE finals = {}

C3_TurnCompleteFinals ==
  log.tc.ran =>
    /\ TurnCompleteFinal("user", log.tc.input)
    /\ TurnCompleteFinal("bot", log.tc.output)

C3_Witness ==
  /\ log.tc.ran
  /\ log.op = "decode"
  /\ log.tc.input # ""
  /\ log.tc.output = ""
  /\ Len(log.out) = 1

\* C4: after a turn-complete has been processed the user accumulator, the bot
\* accumulator and the grounding buffer are all empty.
C4_AllEmptyAfterTurnComplete ==
  log.tc.ran =>
    /\ currentInputTranscription = ""
    /\ currentOutputTranscription = ""
    /\ currentGrounding = <<>>

\* C7: the interruption branch emits no user turn and leaves the user
\* accumulator as it was; what it finalizes and clears is the bot accumulator
\* and the grounding buffer.
C7_InterruptionKeepsUser ==
  (log.op = "message" /\ log.msg.interrupted) =>
    /\ FinalsBy("user", "interrupted") = {}
    /\ \A k \in 1..Len(log.out) :
         log.out[k].by = "interrupted" => IsFinal(log.out[k], "bot")
    /\ (~log.msg.hasInput /\ ~log.tc.ran) =>
         currentInputTranscription = log.pre.input
    /\ (~log.msg.hasOutput /\ log.pre.output # "") =>
         currentOutputTranscription = "" /\ currentGrounding = <<>>

C7_Witness ==
  /\ log.op = "message" /\ log.msg.interrupted
  /\ log.pre.input = "b"
  /\ log.pre.output = "a"
  /\ currentInputTranscription = "b"
  /\ currentOutputTranscription = ""

\* C5: a message with interrupted=true stops every output of the live set,
\* empties the set, writes zero to the watermark, and emits a non-empty bot
\* accumulator as a final bot turn with its grounding and clears both; no
\* chunk is scheduled in that step, so all of it precedes the scheduling of
\* the message's own chunk (whose clamp then starts from zero) and of any
\* later one, with or without a turn-complete.
C5_InterruptionResets ==
  (log.op = "message" /\ log.msg.interrupted) =>
    /\ log.stops = {s.id : s \in log.pre.sources}
    /\ outputSources = {}
    /\ log.sched = <<>>
    /\ Len(log.wm) >= 1 /\ log.wm[1] = [val |-> 0, by |-> "interrupted"]
    /\ nextStartTime = IF log.msg.audio THEN clock ELSE 0
    /\ IF log.pre.output # ""
       THEN /\ Len(log.out) >= 1
            /\ log.out[1] = Turn("bot", log.pre.output, TRUE,
                                 log.pre.grounding, "interrupted")
            /\ FinalsBy("bot", "interrupted") = {1}
            /\ ~log.msg.hasOutput =>
                 currentOutputTranscription = "" /\ currentGrounding = <<>>
       ELSE FinalsBy("bot", "interrupted") = {}

C5_Witness ==
  /\ log.op = "message" /\ log.msg.interrupted
  /\ Cardinality(log.pre.sources) = 2
  /\ log.pre.wm > 0
  /\ log.pre.output = "a"
  /\ log.pre.grounding # <<>>
  /\ nextStartTime = 0
  /\ outputSources = {}

\* C6: once an interruption has been handled, no chunk that arrived in an
\* earlier message is started or added to the live set.
C6_NoAudioAfterInterruption ==
  \A k \in 1..Len(log.sched) : ~log.sched[k].call.stale

\* C8: the watermark never decreases from one write to the next, except that
\* an interruption (or a teardown) writes zero; a step that writes nothing
\* leaves it as it is.
WatermarkValues(before, writes) ==
  <<before>> \o [k \in 1..Len(writes) |-> writes[k].val]

C8_WatermarkMonotonic ==
  [][LET vals == WatermarkValues(nextStartTime, log'.wm)
     IN /\ nextStartTime' = vals[Len(vals)]
        /\ \A k \in 1..Len(log'.wm) :
             \/ vals[k + 1] >= vals[k]
             \/ /\ vals[k + 1] = 0
                /\ log'.wm[k].by = "interrupted" \/ log'.stop]_vars

C8_Witness ==
  /\ log.op = "message" /\ log.msg.interrupted /\ log.msg.audio
  /\ log.pre.wm > clock
  /\ nextStartTime = clock
  /\ clock > 0

\* C9, as stated: after a scheduling step that no interruption crossed, the
\* watermark is the watermark the step found plus the buffer's duration.
C9_WatermarkIsPreviousPlusDuration ==
  \A k \in 1..Len(log.sched) :
    ~log.sched[k].call.stale =>
      nextStartTime = log.sched[k].call.wmIn + log.sched[k].node.dur

\* C9, amended: the buffer starts at the watermark as it stands when the
\* decode completes, and the watermark then is that start plus the buffer's
\* duration; the start is at least the watermark the step found unless an
\* interruption crossed the step.
C9_WatermarkIsStartPlusDuration ==
  \A k \in 1..Len(log.sched) :
    LET e == log.sched[k]
    IN /\ e.node.start = e.wmBefore
       /\ e.node \in outputSources
       /\ nextStartTime = e.node.start + e.node.dur
       /\ ~e.call.stale => e.node.start >= e.call.wmIn

C9_Witness ==
  /\ Len(log.sched) = 1
  /\ ~log.sched[1].call.stale
  /\ log.sched[1].node.start > log.sched[1].call.wmIn
  /\ log.sched[1].node.dur = 2

\* C10: two calls of stopSession in succession make each release (transport
\* close, track stop, source and processor disconnect, input and output
\* context close, stop of a live output) at most once between them.
Releases == DOMAIN NoRel

C10_SecondStopReleasesNothing ==
  [][(log.op = "stopSession" /\ log'.op = "stopSession") =>
       /\ \A r \in Releases : log.rel[r] + log'.rel[r] <= 1
       /\ log.stops \cap log'.stops = {}]_vars

\* C11: once stopSession has been called, in whatever lifecycle state, the
\* session is closed: no transport connection of it is open, and no
\* microphone stream, media source or frame processor is held.
C11_StoppedStaysClosed ==
  nStops > 0 =>
    /\ conn # "open"
    /\ session = "null"
    /\ mediaStream = "null" /\ source = "null" /\ scriptProcessor = "null"

\* C12: when the microphone acquisition resolves after the caller stopped the
\* session during it (this.session is null again, no error was reported), no
\* microphone stream is retained and no media source or frame processor is
\* created.
C12_NoResurrection ==
  (log.op = "micGranted" /\ nStops > 0 /\ session = "null"
     /\ status # "ERROR") =>
    mediaStream = "null" /\ source = "null" /\ scriptProcessor = "null"

\* C13: no turn emitted by a step, final or not, has a grounding source whose
\* uri is the unresolved marker '#'.
C13_NoUnresolvedSource ==
  \A k \in 1..Len(log.out) :
    \A j \in 1..Len(log.out[k].grounding) : log.out[k].grounding[j].uri # "#"

C13_Witness ==
  /\ log.msg.chunks = <<BareChunk, MapsChunk>>
  /\ Len(log.out) = 1
  /\ log.out[1].grounding = <<[title |-> "M", uri |-> "u2"]>>

\* C14: the status is IDLE at first; LISTENING once the session has started
\* and the microphone is acquired (and nothing has arrived yet); PROCESSING
\* after a user transcription; SPEAKING after a bot transcription; LISTENING
\* again after a turn-complete.
C14_StatusScenario ==
  /\ log.op = "init" => status = "IDLE"
  /\ (log.op = "micGranted" /\ nMsgs = 0) => status = "LISTENING"
  /\ (log.op = "message" /\ log.msg.hasInput /\ ~log.msg.hasOutput
        /\ ~log.tc.ran) => status = "PROCESSING"
  /\ (log.op = "message" /\ log.msg.hasOutput /\ ~log.tc.ran) =>
       status = "SPEAKING"
  /\ log.tc.ran => status = "LISTENING"

C14_Witness ==
  /\ log.tc.ran
  /\ log.tc.input # "" /\ log.tc.output # ""
  /\ mediaStream = "live"
  /\ status = "LISTENING"

\* C15: LISTENING is emitted only when the microphone of the session has been
\* acquired.
C15_ListeningAfterAcquisition ==
  \A k \in 1..Len(log.status) :
    log.status[k] = "LISTENING" => mediaStream = "live"

\* C16: when the microphone acquisition fails, the status is ERROR with the
\* message about microphone access, stopSession has run, the connection is
\* closed, no stream, source or processor is held, and the acquisition is
\* over (it is not tried again).
C16_MicDeniedTearsDown ==
  log.op = "micDenied" =>
    /\ status = "ERROR" /\ errorMessage = MicMessage
    /\ log.stop
    /\ conn \in {"closed", "ended"} /\ session = "null"
    /\ mediaStream = "null" /\ source = "null" /\ scriptProcessor = "null"
    /\ inputAudioContext \in {"closing", "closed"}
    /\ openPc = "done"

C16_Witness ==
  /\ log.op = "micDenied"
  /\ log.rel.close = 1 /\ log.rel.inputClose = 1 /\ log.rel.outputClose = 1
  /\ status = "ERROR"

\* C17: an error of the connection or of the connect call emits ERROR with a
\* message and runs all of stopSession: afterwards the service holds no
\* session, promise, stream, source, processor or live output, its contexts
\* are closed or closing, and the connection is not open.
C17_ErrorTearsDown ==
  log.op \in {"error", "connectFailed"} =>
    /\ log.status = <<"ERROR">> /\ log.message # ""
    /\ status = "ERROR" /\ errorMessage = log.message
    /\ log.stop
    /\ session = "null" /\ sessionPromise = "null"
    /\ mediaStream = "null" /\ source = "null" /\ scriptProcessor = "null"
    /\ outputSources = {}
    /\ inputAudioContext \in {"closing", "closed"}
    /\ outputAudioContext \in {"closing", "closed"}
    /\ conn \in {"closed", "ended"}

C17_Witness ==
  /\ log.op = "error"
  /\ log.rel.close = 1 /\ log.rel.tracks = 1
  /\ log.rel.source = 1 /\ log.rel.processor = 1
  /\ status = "ERROR"

\* C18, as stated: the message is chosen by the substrings "api key",
\* "network" or "fetch", and "quota" of the lowered raw message, and is the
\* unknown-error message otherwise.
ClaimedMessage(raw) ==
  LET message == toLowerCase(raw)
  IN IF includes(message, "api key") THEN InvalidKeyMessage
     ELSE IF includes(message, "network") \/ includes(message, "fetch")
          THEN NetworkMessage
     ELSE IF includes(message, "quota") THEN QuotaMessage
     ELSE UnknownMessage

C18_ClassifierAsStated ==
  log.op \in {"error", "connectFailed"} => errorMessage = ClaimedMessage(log.raw)

\* C18, amended: the substrings are "api key not valid", "network" or
\* "failed to fetch", "permission denied" (with a message of its own) and
\* "quota", whatever the case of the raw message; any other message, and the
\* empty one, gets the unknown-error message.
ExpectedMessage ==
  [raw \in RawMessages |->
     CASE raw = "API key not valid. Please pass a valid API key." -> InvalidKeyMessage
       [] raw \in {"Network error", "TypeError: Failed to fetch"} -> NetworkMessage
       [] raw = "PERMISSION DENIED" -> PermissionMessage
       [] raw = "Quota exceeded" -> QuotaMessage
       [] OTHER -> UnknownMessage]

C18_ClassifierPatterns ==
  log.op \in {"error", "connectFailed"} =>
    /\ log.message = ExpectedMessage[log.raw]
    /\ errorMessage = ExpectedMessage[log.raw]

C18_Witness ==
  /\ log.op = "error"
  /\ log.raw = "TypeError: Failed to fetch"
  /\ errorMessage = NetworkMessage

\* C19: the end of the connection (onclose) emits no status, releases
\* nothing and changes no field of the service and nothing App shows,
\* whether or not the session was stopped before.
C19_CloseIsNoOp ==
  [][log'.op = "close" =>
       /\ fields' = fields /\ app' = app
       /\ openPc' = openPc /\ pending' = pending
       /\ log'.status = <<>> /\ ~log'.stop /\ log'.rel = NoRel]_vars

C19_Witness ==
  /\ log.op = "close"
  /\ nStops > 0
  /\ status = "LISTENING"
  /\ session = "null"

\* C20: without a credential no audio context is created, no connection is
\* attempted and no device is requested, and a start ends in status ERROR
\* with the message of the configuration error.
C20_NoCredentialNoResource ==
  ~apiKey =>
    /\ inputAudioContext = "null" /\ outputAudioContext = "null"
    /\ sessionPromise = "null" /\ session = "null" /\ conn = "none"
    /\ openPc = "idle" /\ mediaStream = "null"
    /\ startPc # "new" => status = "ERROR" /\ errorMessage = ApiKeyMessage

C20_Witness ==
  /\ ~apiKey
  /\ log.op = "startFailed"
  /\ status = "ERROR" /\ errorMessage = ApiKeyMessage

\* C21: a successful start puts the status into the connecting state before
\* anything else, the connection is requested with no microphone request
\* made, and the microphone is requested only once onopen has run: never
\* while there is no connection or the connection is still opening.
C21_MicOnlyAfterOpen ==
  /\ (log.op = "start" => status = "GREETING" /\ openPc = "idle")
  /\ (log.op = "connect" => openPc = "idle" /\ mediaStream = "null")
  /\ (openPc # "idle" => conn \notin {"none", "opening"})
  /\ (mediaStream # "null" => conn \notin {"none", "opening"})

\* The microphone was granted after onopen, on a start that went through
\* the connecting state.
C21_Witness ==
  /\ log.op = "micGranted"
  /\ mediaStream = "live"
  /\ conn = "open"
  /\ status = "LISTENING"

\* C28: every step that handles a failure (of the construction, of the
\* greeting, of the connection, of the microphone request) emits ERROR.
C28_FailureEmitsError ==
  log.failure => \E k \in 1..Len(log.status) : log.status[k] = "ERROR"

\* C29: once the session was stopped, by the caller or by an error, no
\* connection is requested, none opens and no microphone is requested.
C29_NothingStartsAfterStop ==
  log.op \in {"connect", "open"} => nStops = 0

\* C24: a message is handled only when the handlers of the messages before
\* it have run to their end: when a message step is over, the only handler
\* that may be suspended is the one of this message.
C24_NoEarlierHandlerSuspended ==
  log.op = "message" =>
    Len(pending) <= (IF Suspends(log.msg) THEN 1 ELSE 0)

\* The place of a branch of the handler in the order of the handler.
BranchRank(by) ==
  CASE by = "interrupted" -> 0
    [] by = "input" -> 1
    [] by = "output" -> 2
    [] by = "audio" -> 3
    [] by = "turnComplete" -> 4

\* The place of an event in the order the specification gives: transcript,
\* then audio, then status.
KindRank(kind) ==
  CASE kind = "turn" -> 1
    [] kind = "audio" -> 2
    [] kind = "schedule" -> 2
    [] kind = "status" -> 3

\* C25 as stated: in one step of a handler the transcript emissions come
\* before the audio scheduling and both before the status emissions.
C25_TranscriptAudioThenStatus ==
  \A i, j \in 1..Len(log.ev) :
    i < j => KindRank(log.ev[i].kind) <= KindRank(log.ev[j].kind)

\* C25: in one step of a handler the branches act in the order interruption,
\* user transcript, bot transcript, audio, turn-complete, so the partial
\* transcripts come before the audio scheduling and the final turns after
\* it; within a branch the status is emitted before the turn.
C25_BranchOrderStatusFirst ==
  \A i, j \in 1..Len(log.ev) :
    i < j =>
      /\ BranchRank(log.ev[i].by) <= BranchRank(log.ev[j].by)
      /\ log.ev[i].by = log.ev[j].by =>
           ~(log.ev[i].kind = "turn" /\ log.ev[j].kind = "status")

\* The handler of a message with audio and a turn-complete resumes after a
\* user partial: the audio is scheduled, LISTENING is emitted, then the
\* final user turn.
C25_Witness ==
  /\ log.op = "decode"
  /\ Len(log.ev) = 3
  /\ log.ev[1] = [kind |-> "schedule", by |-> "audio"]
  /\ log.ev[2] = [kind |-> "status", by |-> "turnComplete"]
  /\ log.ev[3] = [kind |-> "turn", by |-> "turnComplete"]
  /\ log.pre.input # ""

\* The non-final turns of an author in the transcript list of App.
Drafts(author) ==
  {i \in 1..Len(transcript) : IsPartial(transcript[i], author)}

\* C27: the transcript list holds at most one non-final turn per author;
\* after a step that emitted turns of an author, the author's non-final turn
\* in the list is the last turn emitted if that one is non-final, and there
\* is none if it is final.
C27_OneDraftPerAuthor ==
  \A author \in {"user", "bot"} :
    LET emitted == {k \in 1..Len(log.out) : log.out[k].author = author}
    IN /\ Cardinality(Drafts(author)) <= 1
       /\ emitted # {} =>
            LET last == CHOOSE k \in emitted : \A j \in emitted : j <= k
            IN IF log.out[last].isFinal
               THEN Drafts(author) = {}
               ELSE \E i \in Drafts(author) : transcript[i] = log.out[last]

\* The list holds a non-final turn of each author, the user's one replaced
\* in its place by the last step.
C27_Witness ==
  /\ Len(transcript) = 2
  /\ Drafts("user") = {1} /\ Drafts("bot") = {2}
  /\ transcript[1].text = log.msg.inputText
  /\ PartialsOf("user") # {}
  /\ log.pre.input # "" /\ log.pre.input # log.msg.inputText

\* The text of the one turn the last step emitted, "" if it emitted none or
\* several.
OnlyTurn(isFinal) ==
  IF Len(log.out) = 1 /\ log.out[1].author = "bot" /\ log.out[1].isFinal = isFinal
  THEN log.out[1].text
  ELSE ""

C30_Inputs == <<"H", "Hi", "Hi there">>
C30_Deltas == <<"H", "i", " there">>

\* C30 as stated: after the bot inputs "H", "Hi", "Hi there", in this order
\* and with no turn-complete between them, the non-final turn emitted for
\* each input has that input as its text.
C30_InputsAreEmitted ==
  \A n \in 1..3 :
    (log.op = "message" /\ log.msg.hasOutput
       /\ botDeltas = SubSeq(C30_Inputs, 1, n)) =>
      OnlyTurn(FALSE) = C30_Inputs[n]

\* C30: after the bot deltas "H", "i", " there" with no turn-complete between
\* them the non-final turns emitted are "H", "Hi", "Hi there"; a
\* turn-complete that follows emits one final turn "Hi there" and leaves the
\* bot accumulator empty.
C30_DeltasAccumulate ==
  /\ \A n \in 1..3 :
       (log.op = "message" /\ log.msg.hasOutput
          /\ botDeltas = SubSeq(C30_Deltas, 1, n)) =>
         /\ OnlyTurn(FALSE) = C30_Inputs[n]
         /\ currentOutputTranscription = C30_Inputs[n]
  /\ (log.tc.ran /\ log.tc.deltas = C30_Deltas) =>
       /\ OnlyTurn(TRUE) = "Hi there"
       /\ currentOutputTranscription = ""
       /\ botDeltas = <<>>

\* The three deltas were received and the turn-complete has been handled.
C30_Witness ==
  /\ log.tc.ran
  /\ log.tc.deltas = C30_Deltas
  /\ log.out[1].text = "Hi there"
  /\ nMsgs = 4

\* C22: no connection is requested or open for the service App holds while
\* the connection of the service it held before is still opening or open.
C22_OneConnection ==
  ~(prevConn \in {"opening", "open"} /\ conn \in {"opening", "open"})

\* The updates to PROCESSING of the last step that cross into PROCESSING
\* from another status.
Crossings(was, statuses) ==
  Cardinality({k \in 1..Len(statuses) :
                 /\ statuses[k] = "PROCESSING"
                 /\ (IF k = 1 THEN was ELSE statuses[k - 1]) # "PROCESSING"})

\* C26: a handler calls playProcessing once for each crossing of the status
\* from a status that is not PROCESSING into PROCESSING, and not for an
\* update to PROCESSING while the status is PROCESSING.
C26_CueOncePerCrossing ==
  log.cues = Crossings(log.was, log.status)

\* C23: the frames a step hands to the transport are the frame that step
\* captured: no frame is handed over in a later step than its own.
C23_NoFrameSentLater ==
  \A k \in 1..Len(log.sent) : log.sent[k] = log.frame

\* A captured frame found sessionPromise null and was let go.
C23_Dropped ==
  log.op = "frame" /\ sessionPromise = "null" /\ log.sent = <<>>

\* The patterns of the classifier in the order of precedence, each with the
\* message shown for it.
Patterns ==
  << [any |-> {"api key not valid"}, shown |-> InvalidKeyMessage],
     [any |-> {"network", "failed to fetch"}, shown |-> NetworkMessage],
     [any |-> {"permission denied"}, shown |-> PermissionMessage],
     [any |-> {"quota"}, shown |-> QuotaMessage] >>

\* The patterns a raw message matches.
Matching(raw) ==
  {k \in 1..Len(Patterns) :
     \E needle \in Patterns[k].any : includes(toLowerCase(raw), needle)}

\* The message of the earliest pattern matched, of the unknown error if none.
FirstMatch(raw) ==
  IF Matching(raw) = {} THEN UnknownMessage
  ELSE Patterns[CHOOSE k \in Matching(raw) : \A j \in Matching(raw) : k <= j].shown

FirstMatches == [raw \in OverlappingMessages |-> FirstMatch(raw)]

\* C40: every raw message is given a message, the one of the earliest
\* pattern it matches in the order invalid API key, network, permission
\* denied, quota (the unknown-error message if it matches none), and that
\* is the message shown with ERROR.
C40_FirstMatchWins ==
  log.op \in {"error", "connectFailed"} =>
    /\ log.message = FirstMatches[log.raw]
    /\ log.message # ""
    /\ errorMessage = log.message

\* An error whose message matches the quota pattern first and the network
\* pattern after it was shown as a network error.
C40_Witness ==
  /\ log.op = "error"
  /\ log.raw = "Quota: Failed to fetch"
  /\ errorMessage = NetworkMessage
  /\ status = "ERROR"

\* C33: every ERROR is emitted with a non-empty message, and while the
\* status is ERROR the message App shows is that message: never null, never
\* empty.
C33_ErrorHasMessage ==
  /\ (\E k \in 1..Len(log.status) : log.status[k] = "ERROR") =>
       /\ log.message # ""
       /\ errorMessage = log.message
  /\ status = "ERROR" => errorMessage \notin {"null", ""}

\* An error event without a message was shown as the unknown error.
C33_Witness ==
  /\ log.op = "error"
  /\ log.raw = ""
  /\ status = "ERROR"
  /\ errorMessage = UnknownMessage

\* C37: when the session was stopped during the greeting, the step that
\* follows the greeting requests no connection and creates no input context.
C37_NoSessionAfterStoppedGreeting ==
  (log.op = "connect" /\ nStops > 0) =>
    /\ conn = "none"
    /\ sessionPromise = "null"
    /\ inputAudioContext = "null"

\* The steps in which App empties its transcript list as a whole.
Emptying ==
  {"start", "restart", "startFailed", "stopConversation", "micDenied",
   "error", "connectFailed"}

\* C31: a final turn of the transcript list stays where it is and as it is
\* in every step, unless the step is a start, a stop or an error, which
\* empty the list.
C31_FinalTurnsStay ==
  [][ (\A i \in 1..Len(transcript) :
         transcript[i].isFinal =>
           (i <= Len(transcript') /\ transcript'[i] = transcript[i]))
      \/ (log'.op \in Emptying /\ transcript' = <<>>) ]_vars

\* After a final user turn a user partial was emitted: the list holds the
\* final turn and, after it, the new non-final one.
C31_Witness ==
  /\ Len(transcript) = 2
  /\ IsFinal(transcript[1], "user")
  /\ IsPartial(transcript[2], "user")
  /\ PartialsOf("user") # {}

\* The edges of the status the specification gives to the messages of a
\* session; an update to the status that already stands changes nothing.
Edge(from, to) ==
  \/ from = to
  \/ from = "LISTENING" /\ to = "PROCESSING"
  \/ from \in {"PROCESSING", "LISTENING"} /\ to = "SPEAKING"
  \/ from \in {"SPEAKING", "PROCESSING"} /\ to = "LISTENING"
  \/ to = "ERROR"

\* C32: every status a message handler emits is reached over one of the
\* edges, from the status that stood before it.
C32_StatusEdges ==
  log.op \in {"message", "decode"} =>
    \A k \in 1..Len(log.status) :
      Edge(IF k = 1 THEN log.was ELSE log.status[k - 1], log.status[k])

\* The callbacks of a session that can come late: the handshake, a message,
\* the end of a decode, the answer to the microphone request.
LateOps == {"open", "message", "decode", "micGranted"}

\* C35: a callback of the session that finds the status ERROR emits no
\* status other than ERROR and no turn.
C35_SilentAfterError ==
  (log.op \in LateOps /\ log.was = "ERROR") =>
    /\ \A k \in 1..Len(log.status) : log.status[k] = "ERROR"
    /\ log.out = <<>>

\* C36: a callback of the session that finds the status IDLE, as
\* stopConversation left it, leaves the status IDLE, the transcript empty
\* and the live set of the session empty.
C36_QuietAfterStop ==
  (log.op \in LateOps /\ log.was = "IDLE") =>
    /\ status = "IDLE"
    /\ transcript = <<>>
    /\ outputSources = {}

\* C38: a call of playStreamedAudio leaves the watermark at or after the
\* clock value it read; no step but an interruption lowers the watermark; a
\* decode that completes starts its output at the watermark, which is at or
\* after the end (start + duration) of every output of the live set, and
\* moves the watermark to the end of the new output.  So between two
\* interruptions an output starts no earlier than the clock value read for
\* it and no earlier than the end of the output scheduled before it, however
\* many decodes are in flight.
C38_NoOverlapNoPast ==
  [][ /\ (log'.op = "message" /\ log'.msg.audio) => nextStartTime' >= clock
      /\ ~(log'.op = "message" /\ log'.msg.interrupted) =>
           nextStartTime' >= nextStartTime
      /\ log'.op = "decode" =>
           LET node == log'.sched[1].node
           IN /\ node.start = nextStartTime
              /\ node.start >= log'.sched[1].call.wmIn
                   \/ log'.sched[1].call.stale
              /\ nextStartTime' = node.start + node.dur
              /\ \A s \in outputSources : s.start + s.dur <= node.start
              /\ \A s \in outputSources' \ {node} :
                   s.start + s.dur <= node.start ]_vars

\* Three decodes were in flight at once and the clock moved on: the
\* second to complete is scheduled behind the first, the third is pending.
C38_Witness ==
  /\ log.op = "decode"
  /\ Cardinality(outputSources) = 2
  /\ \E s \in outputSources :
       s # log.sched[1].node /\ log.sched[1].node.start = s.start + s.dur
  /\ ~log.sched[1].call.stale
  /\ Len(pending) > 0
  /\ clock > 0

\* C39: after a message the grounding buffer is the filtered chunks of the
\* message if it carries a bot delta and chunks, and otherwise what it was
\* (empty if an interruption or a turn-complete of the message flushed the
\* bot turn); the bot turns the message emits carry the buffer as it stands
\* when they are emitted.
C39_GroundingReplaced ==
  log.op = "message" =>
    LET m == log.msg
        kept == IF m.interrupted /\ log.pre.output # ""
                THEN <<>> ELSE log.pre.grounding
        expected == IF m.hasOutput /\ m.hasChunks
                    THEN GroundingOf(m.chunks) ELSE kept
    IN /\ \A k \in FinalsBy("bot", "interrupted") :
            log.out[k].grounding = log.pre.grounding
       /\ \A k \in PartialsOf("bot") : log.out[k].grounding = expected
       /\ \A k \in FinalsBy("bot", "turnComplete") :
            log.out[k].grounding = expected
       /\ currentGrounding =
            IF log.tc.ran /\ log.tc.output # "" THEN <<>> ELSE expected

\* A bot delta with chunks found the buffer filled by an earlier message and
\* replaced it with its own filtered chunks.
C39_Witness ==
  /\ log.op = "message"
  /\ log.msg.hasOutput
  /\ log.msg.chunks = <<BareChunk, MapsChunk>>
  /\ log.pre.grounding = GroundingOf(<<WebChunk>>)
  /\ currentGrounding = GroundingOf(<<BareChunk, MapsChunk>>)
  /\ Len(currentGrounding) = 1
  /\ nMsgs = 3

\* What a step may do to the live set: a completed decode adds the source it
\* started, an interruption empties the set, an 'ended' event removes one
\* source that has played out; every other step leaves the set as it is.
LiveSetStep ==
  IF log'.op = "decode"
  THEN outputSources' = outputSources \cup {log'.sched[1].node}
  ELSE IF log'.op = "message" /\ log'.msg.interrupted
  THEN outputSources' = {}
  ELSE IF log'.op = "ended"
  THEN \E s \in outputSources :
         s.end <= clock /\ outputSources' = outputSources \ {s}
  ELSE outputSources' = outputSources

\* C34: the live set changes only by the start of an output, by an 'ended'
\* event of an output that has played out and by an interruption, so it
\* holds the outputs started and neither ended nor stopped; and, the
\* messages being finitely many, a set that is not empty gets empty.
C34_LiveSet ==
  /\ [][LiveSetStep]_vars
  /\ (outputSources # {}) ~> (outputSources = {})

\* A source that had played out was removed by its 'ended' event while
\* another one was still live.
C34_Witness ==
  /\ log.op = "ended"
  /\ Cardinality(outputSources) = 1
  /\ \A s \in outputSources : s.end > clock

====
